---- MODULE Spec2Model ----
(***************************************************************************)
(* Stonehenge: the board with its three families of ley-lines (board.py),  *)
(* the game state that wraps a board (stonehenge.py) and the two minimax   *)
(* strategies (strategy.py).                                               *)
(*                                                                         *)
(* Python objects live in two heaps: `boards` holds the Board objects and  *)
(* `states` the StonehengeState objects, whose board field is an index     *)
(* into `boards`, so that two states sharing one Board can be told from    *)
(* two states with equal boards.  A BoardNode is named by its label; its   *)
(* value is 0 while it still carries its name, 1 or 2 once occupied.       *)
(***************************************************************************)
EXTENDS Integers, Sequences, FiniteSets, TLC

VARIABLES
    boards,         \* the Board objects
    states,         \* the StonehengeState objects
    current_state,  \* game.current_state: an index into states
    call            \* the last call made, with its arguments and what it returned

vars == <<boards, states, current_state, call>>

\* ------------------------------------------------------------------ bounds

\* The board sizes games are played on.
Sizes == 0 .. 2

\* Most direct occupy_node calls made on one board of SpecOccupy.
MaxOccupy == 4

\* Most StonehengeState objects alive in SpecHeap.
MaxStates == 3

\* Most moves recorded on the boards of SpecHeap, all boards together.
MaxHeapMoves == 3

\* Largest size a board is constructed with in SpecBoard.
MaxBoardSize == 5

\* Sizes below 0 a board is constructed with in SpecBoard: -1 .. -NegativeSizes.
NegativeSizes == 2

\* Most occupy_node calls made on the board of SpecBoard.
MaxBoardOccupy == 2

\* The loop of iterative_minimax_strategy is followed for at most
\* 2^LoopDoublings iterations.
LoopDoublings == 14

\* The iterations of iterative_minimax_strategy are followed one by one on
\* states with at most this many cells left unclaimed.
MaxLoopCells == 4

\* A ley-line taken by itself has at most this many cells.
MaxLineCells == 4

\* ------------------------------------------------------------- python values

None == "None"

Players == {"p1", "p2"}

SeqSum(s) == LET RECURSIVE acc(_)
                 acc(i) == IF i = 0 THEN 0 ELSE s[i] + acc(i - 1)
             IN acc(Len(s))

\* s[k:] taken as the whole list.
SliceFrom_start(s, k) == s

\* s[k:] of a Python list, k >= 0
SliceFrom(s, k) == IF k >= Len(s) THEN <<>> ELSE SubSeq(s, k + 1, Len(s))

\* s[:-k] of a Python list, k >= 1
DropLast(s, k) == IF k >= Len(s) THEN <<>> ELSE SubSeq(s, 1, Len(s) - k)

\* The elements of a list.
Range(seq) == {seq[i] : i \in DOMAIN seq}

\* max() of a nonempty list of integers
MaxOf(s) == CHOOSE m \in {s[i] : i \in DOMAIN s} : \A i \in DOMAIN s : s[i] <= m

\* ------------------------------------------------------------- board geometry

\* generate_layers making a first row of three nodes.
RECURSIVE generate_layers_of_three(_, _, _, _)
generate_layers_of_three(size, content, res, layer) ==
    IF layer = 1
    THEN LET first == <<1, 2, 3>>
         IN IF size >= 0
            THEN generate_layers_of_three(size, <<first>>, first, layer + 2)
            ELSE <<first>>
    ELSE IF layer <= size + 2
    THEN LET made  == SeqSum([i \in DOMAIN content |-> Len(content[i])])
             temp  == IF layer = size + 2 THEN SliceFrom(res, 1) ELSE res
             temp2 == IF layer = size + 2 THEN 0
                      ELSE IF size = 1 THEN 0
                      ELSE IF layer < size + 2 THEN 1
                      ELSE 0
             new_res == [i \in 1..(Len(temp) + temp2) |-> made + i]
         IN generate_layers_of_three(size, Append(content, new_res), new_res,
                                     layer + 1)
    ELSE content

\* The rows of BoardNodes of a board of the given size; a node is numbered by
\* its place in the rows, which is the order name_layers visits them in.
RECURSIVE generate_layers(_, _, _, _)
generate_layers(size, content, res, layer) ==
    IF layer = 1
    THEN LET first == <<1, 2>>
         IN IF size >= 0
            THEN generate_layers(size, <<first>>, first, layer + 2)
            ELSE <<first>>
    ELSE IF layer <= size + 2
    THEN LET made  == SeqSum([i \in DOMAIN content |-> Len(content[i])])
             temp  == IF layer = size + 2 THEN SliceFrom(res, 1) ELSE res
             temp2 == IF layer = size + 2 THEN 0
                      ELSE IF size = 1 THEN 0
                      ELSE IF layer < size + 2 THEN 1
                      ELSE 0
             new_res == [i \in 1..(Len(temp) + temp2) |-> made + i]
         IN generate_layers(size, Append(content, new_res), new_res, layer + 1)
    ELSE content

alphabet == <<"A", "B", "C", "D", "E", "F", "G", "H", "I", "J", "K", "L", "M",
              "N", "O", "P", "Q", "R", "S", "T", "U", "V", "W", "X", "Y", "Z">>

RECURSIVE to_add(_)
to_add(add_on) == IF add_on = 0 THEN "" ELSE "'" \o to_add(add_on - 1)

\* The name given to the k-th node visited (k counted from 1).
name_layers(k) == alphabet[((k - 1) % Len(alphabet)) + 1]
                      \o to_add((k - 1) \div Len(alphabet))

\* The rows of nodes with each node given its name.
Named(layers) ==
    [i \in DOMAIN layers |->
        [j \in DOMAIN layers[i] |-> name_layers(layers[i][j])]]

\* Board._content once named: the rows of labels.
Content(size) == Named(generate_layers(size, <<>>, <<>>, 1))

\* The keys of node_reference, in insertion order, c being _content.
NodeNames(c) ==
    LET RECURSIVE flat(_)
        flat(i) == IF i > Len(c) THEN <<>> ELSE c[i] \o flat(i + 1)
    IN flat(1)

max_len_list(l) ==
    IF l = <<>> THEN 0
    ELSE CHOOSE i \in DOMAIN l :
            /\ \A k \in DOMAIN l : Len(l[k]) <= Len(l[i])
            /\ \A k \in 1..(i - 1) : Len(l[k]) < Len(l[i])

\* index counts from 0 as in the source
RECURSIVE top_to_line(_, _, _)
top_to_line(a, max_width, index) ==
    IF index <= max_width
    THEN LET long == SelectSeq(a, LAMBDA x : Len(x) > index)
             k    == [i \in DOMAIN long |-> long[i][index + 1]]
         IN (IF k # <<>> THEN <<k>> ELSE <<>>)
                \o top_to_line(a, max_width, index + 1)
    ELSE <<>>

\* The layers of l[:-2], longest first (the list j of adjoin).
RECURSIVE by_length(_)
by_length(n) ==
    IF n = <<>> THEN <<>>
    ELSE LET temp == max_len_list(n)
         IN <<n[temp]>> \o by_length(SubSeq(n, 1, temp - 1)
                                       \o SubSeq(n, temp + 1, Len(n)))

\* The cells complete_str2 appends to res1[i] for count = -c.
complete_str2(j, c) ==
    LET fits == SelectSeq(j, LAMBDA s : c <= Len(s))
    IN [k \in DOMAIN fits |-> fits[k][Len(fits[k]) - c + 1]]

\* top_to_line(a, max([len(x) for x in a]))
widest_to_line(a) == top_to_line(a, MaxOf([i \in DOMAIN a |-> Len(a[i])]), 0)

\* The loop of mode 'u' leaving the first line out.
adjoin_upward_from_second(res1, last) ==
    [i \in 1 .. (Len(res1) - 1) |-> Append(res1[i + 1], last[i])]

\* The loop of mode 'u' appending the first cell of the last layer each time.
adjoin_upward_of_first(res1, last) ==
    [i \in DOMAIN res1 |->
        IF i = 1 THEN res1[1] ELSE Append(res1[i], last[1])]

\* The loop of mode 'u': the cells of the last layer appended to res1[1:].
adjoin_upward(res1, last) ==
    [i \in DOMAIN res1 |->
        IF i = 1 THEN res1[1] ELSE Append(res1[i], last[i - 1])]

\* The loops of mode 'd' with no line made of res1[0].
adjoin_downward_from_second(res1, j) ==
    [i \in 1 .. (Len(res1) - 1) |->
        res1[i + 1] \o complete_str2(j, Len(res1) - i)]

\* The loops of mode 'd': the cells of the layers j appended to res1[1:].
adjoin_downward(res1, j) ==
    [i \in DOMAIN res1 |->
        IF i = 1 THEN res1[1]
        ELSE res1[i] \o complete_str2(j, Len(res1) - i + 1)]

\* adjoin making one line of the whole layer of a board of size 0.
adjoin_whole_layer(size, l, mode) ==
    IF size = 0 THEN <<l[1]>>
    ELSE IF mode = "u"
    THEN adjoin_upward(widest_to_line(DropLast(l, 1)), l[Len(l)])
    ELSE adjoin_downward(widest_to_line(<<l[Len(l)], l[Len(l) - 1]>>),
                         by_length(DropLast(l, 2)))

adjoin(size, l, mode) ==
    IF size = 0 THEN [i \in DOMAIN l[1] |-> <<l[1][i]>>]
    ELSE IF mode = "u"
    THEN adjoin_upward(widest_to_line(DropLast(l, 1)), l[Len(l)])
    ELSE adjoin_downward(widest_to_line(<<l[Len(l)], l[Len(l) - 1]>>),
                         by_length(DropLast(l, 2)))

LeyLine(cells) == [cells |-> cells, taken |-> None]

generate_leys(l) == [i \in DOMAIN l |-> LeyLine(l[i])]

\* Board(size): the board as __init__ leaves it.  node_reference keeps the keys
\* of the registry in insertion order; value[n] is the value of the node the
\* registry holds under n.
board_over(size, c, names) ==
    [data           |-> <<size, None>>,
     moves_history  |-> <<>>,
     content        |-> c,
     node_reference |-> names,
     value          |-> [n \in {names[i] : i \in DOMAIN names} |-> 0],
     upw_leys       |-> generate_leys(adjoin(size, c, "u")),
     downw_leys     |-> generate_leys(adjoin(size, c, "d")),
     horiz_leys     |-> generate_leys(c)]

Board(size) == board_over(size, Content(size), NodeNames(Content(size)))

\* ------------------------------------------------------------------ LeyLine

\* calculate_positions taking a line only on more than half of its cells.
calculate_positions_above_half(line, value) ==
    IF line.taken = None
    THEN LET p1_number == Cardinality({i \in DOMAIN line.cells : value[line.cells[i]] = 1})
             p2_number == Cardinality({i \in DOMAIN line.cells : value[line.cells[i]] = 2})
             first  == IF 2 * p1_number > Len(line.cells) THEN "p1" ELSE line.taken
             second == IF 2 * p2_number > Len(line.cells) THEN "p2" ELSE first
         IN [line EXCEPT !.taken = second]
    ELSE line

\* calculate_positions without its test of `taken`.
calculate_positions_again(line, value) ==
    LET p1_number == Cardinality({i \in DOMAIN line.cells : value[line.cells[i]] = 1})
        p2_number == Cardinality({i \in DOMAIN line.cells : value[line.cells[i]] = 2})
        first  == IF 2 * p1_number >= Len(line.cells) THEN "p1" ELSE line.taken
        second == IF 2 * p2_number >= Len(line.cells) THEN "p2" ELSE first
    IN [line EXCEPT !.taken = second]

\* LeyLine.calculate_positions, reading the nodes' values from `value`.
calculate_positions(line, value) ==
    IF line.taken = None
    THEN LET p1_number == Cardinality({i \in DOMAIN line.cells : value[line.cells[i]] = 1})
             p2_number == Cardinality({i \in DOMAIN line.cells : value[line.cells[i]] = 2})
             first  == IF 2 * p1_number >= Len(line.cells) THEN "p1" ELSE line.taken
             second == IF 2 * p2_number >= Len(line.cells) THEN "p2" ELSE first
         IN [line EXCEPT !.taken = second]
    ELSE line

\* for x in leys: x.calculate_positions()
calculate_all(leys, value) ==
    [i \in DOMAIN leys |-> calculate_positions(leys[i], value)] \o <<>>

\* -------------------------------------------------------------------- Board

Owned(leys, player) == Cardinality({i \in DOMAIN leys : leys[i].taken = player})

\* total_leys with the upward lines counted once.
total_leys_once(b) == Len(b.upw_leys) + Len(b.content)

\* total_leys with the layers counted twice as well.
total_leys_all_twice(b) ==
    Len(b.upw_leys) + Len(b.upw_leys) + Len(b.content) + Len(b.content)


total_leys(b) == Len(b.upw_leys) + Len(b.upw_leys) + Len(b.content)

\* winner asking for more than half of the ley-lines.
winner_above_half(b, player) ==
    LET p1_leys == Owned(b.upw_leys, "p1") + Owned(b.downw_leys, "p1")
                       + Owned(b.horiz_leys, "p1")
        p2_leys == Owned(b.upw_leys, "p2") + Owned(b.downw_leys, "p2")
                       + Owned(b.horiz_leys, "p2")
    IN \/ player = "p1" /\ 2 * p1_leys > total_leys(b)
       \/ player = "p2" /\ 2 * p2_leys > total_leys(b)

winner(b, player) ==
    LET p1_leys == Owned(b.upw_leys, "p1") + Owned(b.downw_leys, "p1")
                       + Owned(b.horiz_leys, "p1")
        p2_leys == Owned(b.upw_leys, "p2") + Owned(b.downw_leys, "p2")
                       + Owned(b.horiz_leys, "p2")
    IN \/ player = "p1" /\ 2 * p1_leys >= total_leys(b)
       \/ player = "p2" /\ 2 * p2_leys >= total_leys(b)

total_winner(b, player) == b.data[2] = player

game_over(b) == b.data[2] # None

\* occupation_possible taking the nodes of p2 for free ones.
occupation_possible_but_p2(b, node) == ~ (b.value[node] = 1)


occupation_possible(b, node) == ~ (b.value[node] = 1 \/ b.value[node] = 2)

\* possible_variations without its test of game_over.
possible_variations_after_win(b) ==
    SelectSeq(b.node_reference, LAMBDA node : occupation_possible(b, node))

possible_variations(b) ==
    IF ~ game_over(b)
    THEN SelectSeq(b.node_reference, LAMBDA node : occupation_possible(b, node))
    ELSE <<>>

\* set_winner with the test of data[1] turned round.
set_winner_once_set(b, player) ==
    IF winner(b, player) /\ b.data[2] # None
    THEN [b EXCEPT !.data[2] = player]
    ELSE b

\* set_winner without the test of data[1].
set_winner_again(b, player) ==
    IF winner(b, player)
    THEN [b EXCEPT !.data[2] = player]
    ELSE b

\* The winner flag occupy_node leaves, given the board with its ley-lines
\* recalculated.
set_winner(b, player) ==
    IF winner(b, player) /\ b.data[2] = None
    THEN [b EXCEPT !.data[2] = player]
    ELSE b

\* occupy_node without the loop over horiz_leys.
occupy_node_but_horiz(b, node, player) ==
    LET value == [b.value EXCEPT ![node] = IF player = "p1" THEN 1 ELSE 2]
        marked == [b EXCEPT !.moves_history = Append(@, <<node, player>>),
                            !.value = value,
                            !.upw_leys = calculate_all(@, value),
                            !.downw_leys = calculate_all(@, value)]
    IN set_winner(marked, player)


\* Precondition: node is a key of node_reference, player is p1 or p2.
occupy_node(b, node, player) ==
    LET value == [b.value EXCEPT ![node] = IF player = "p1" THEN 1 ELSE 2]
        marked == [b EXCEPT !.moves_history = Append(@, <<node, player>>),
                            !.value = value,
                            !.upw_leys = calculate_all(@, value),
                            !.downw_leys = calculate_all(@, value),
                            !.horiz_leys = calculate_all(@, value)]
    IN set_winner(marked, player)

\* The recalculations produce_copy adds to each replayed move: the upward
\* lines once, the downward lines twice.
recalculated(after) ==
    [after EXCEPT !.upw_leys = calculate_all(@, after.value),
                  !.downw_leys = calculate_all(
                      calculate_all(@, after.value), after.value)]

\* The loop of produce_copy with every move replayed for p1.
RECURSIVE replay_as_p1(_, _, _)
replay_as_p1(new_board, moves_history, i) ==
    IF i > Len(moves_history) THEN new_board
    ELSE replay_as_p1(recalculated(occupy_node(new_board, moves_history[i][1],
                                               "p1")),
                      moves_history, i + 1)

\* The loop of produce_copy from the i-th move of the history on; it is over
\* when new_board has been played as many moves as the history holds.
RECURSIVE replay(_, _, _)
replay(new_board, moves_history, i) ==
    IF Len(new_board.moves_history) >= Len(moves_history) THEN new_board
    ELSE replay(recalculated(occupy_node(new_board, moves_history[i][1],
                                         moves_history[i][2])),
                moves_history, i + 1)

\* Board(size) for the sizes a game is played on, built once.
FreshBoard == [size \in Sizes |-> Board(size)]

\* produce_copy without the replay of the history.
produce_copy_unplayed(b) == FreshBoard[b.data[1]]

produce_copy(b) == replay(FreshBoard[b.data[1]], b.moves_history, 1)

\* ---------------------------------------------------------- StonehengeState

\* StonehengeState(is_p1_turn, size), the board held by value.
StonehengeState(is_p1_turn, size) ==
    [p1_turn |-> is_p1_turn, size |-> size, board |-> FreshBoard[size]]

get_possible_moves(s) == possible_variations(s.board)

\* make_move on a state that holds its board by value.
occupied(new_state, move) ==
    IF new_state.p1_turn
    THEN [new_state EXCEPT !.board = occupy_node(@, move, "p1")]
    ELSE [new_state EXCEPT !.board = occupy_node(@, move, "p2")]

\* make_move leaving the turn with the player who moved.
make_move_same_turn(s, move) ==
    occupied([StonehengeState(s.p1_turn, s.size)
                 EXCEPT !.board = produce_copy(s.board)], move)


make_move(s, move) ==
    [occupied([StonehengeState(s.p1_turn, s.size)
                  EXCEPT !.board = produce_copy(s.board)], move)
        EXCEPT !.p1_turn = ~ s.p1_turn]

\* ------------------------------------------------------------ the strategies

\* A StonehengeGame as the strategies use it: its current_state, by value.
Game(state) == [current_state |-> state]

is_over(game, state) == game_over(state.board)

is_winner(game, player) == total_winner(game.current_state.board, player)

\* The scores taken as they are.
Negated_not(scores) == scores

\* [(-1) * x for x in scores]
Negated(scores) == [i \in DOMAIN scores |-> (-1) * scores[i]]

\* The states the legal moves of cur_state lead to, in the order of the moves.
new_states(cur_state) ==
    LET moves == get_possible_moves(cur_state)
    IN [i \in DOMAIN moves |-> make_move(cur_state, moves[i])] \o <<>>

\* expander(game, cur_state): the value returned, the exception raised
\* instead if any, and the game as the call leaves it.  expand_each is the
\* calls the list comprehension makes for the new states, in their order:
\* every call assigns game.current_state before it reads the game, so what a
\* call returns does not depend on the calls made before it.  expand_next is
\* the list as far as the comprehension gets (up to the first call that
\* raises) with the game the last call made leaves, and expander_max the
\* max() of the list.
RECURSIVE expander(_, _)
expand_each(game, states_left) ==
    [i \in DOMAIN states_left |-> expander(game, states_left[i])] \o <<>>

expand_next(game, ones) ==
    LET raising == {i \in DOMAIN ones : ones[i].raised # None}
    IN IF raising = {}
       THEN [raised |-> None,
             game |-> IF ones = <<>> THEN game ELSE ones[Len(ones)].game,
             results |-> [i \in DOMAIN ones |-> ones[i].result]]
       ELSE LET first == CHOOSE i \in raising : \A j \in raising : i <= j
            IN [raised |-> ones[first].raised, game |-> ones[first].game,
                results |-> [i \in 1 .. (first - 1) |-> ones[i].result]]

expander_max(game, ones) ==
    IF ones = <<>>
    THEN [raised |-> "ValueError", game |-> game, result |-> 0]
    ELSE LET each == expand_next(game, ones)
         IN IF each.raised # None
            THEN [raised |-> each.raised, game |-> each.game, result |-> 0]
            ELSE [raised |-> None, game |-> each.game,
                  result |-> MaxOf(Negated(each.results))]

expander(game, cur_state) ==
    LET entered == [game EXCEPT !.current_state = cur_state]
        cur_player == IF cur_state.p1_turn THEN "p1" ELSE "p2"
        other_player == IF cur_player = "p1" THEN "p2" ELSE "p1"
    IN IF is_over(entered, cur_state)
       THEN [raised |-> None, game |-> entered,
             result |-> IF is_winner(entered, cur_player) THEN 1
                        ELSE IF is_winner(entered, other_player) THEN -1
                        ELSE 0]
       ELSE expander_max(entered, expand_each(entered, new_states(cur_state)))

\* recursive_choice without the assignment that puts cur_state back.
recursive_choice_astray(cur_state, moves, each) ==
    LET resulting_pairs == Negated(each.results)
    IN IF each.raised # None
       THEN [raised |-> each.raised, game |-> each.game, moves |-> moves,
             resulting_pairs |-> resulting_pairs, maximal |-> <<>>]
       ELSE IF resulting_pairs = <<>>
       THEN [raised |-> "ValueError", game |-> each.game, moves |-> moves,
             resulting_pairs |-> resulting_pairs, maximal |-> <<>>]
       ELSE LET maximum == MaxOf(resulting_pairs)
                best == SelectSeq([i \in DOMAIN moves |-> i],
                                  LAMBDA i : resulting_pairs[i] = maximum)
            IN [raised |-> None,
                game |-> each.game,
                moves |-> moves,
                resulting_pairs |-> resulting_pairs,
                maximal |-> [k \in DOMAIN best |-> moves[best[k]]]]

\* What recursive_minimax_strategy makes of the values of the moves.
recursive_choice(cur_state, moves, each) ==
    LET resulting_pairs == Negated(each.results)
    IN IF each.raised # None
       THEN [raised |-> each.raised, game |-> each.game, moves |-> moves,
             resulting_pairs |-> resulting_pairs, maximal |-> <<>>]
       ELSE IF resulting_pairs = <<>>
       THEN [raised |-> "ValueError", game |-> each.game, moves |-> moves,
             resulting_pairs |-> resulting_pairs, maximal |-> <<>>]
       ELSE LET maximum == MaxOf(resulting_pairs)
                best == SelectSeq([i \in DOMAIN moves |-> i],
                                  LAMBDA i : resulting_pairs[i] = maximum)
            IN [raised |-> None,
                game |-> [each.game EXCEPT !.current_state = cur_state],
                moves |-> moves,
                resulting_pairs |-> resulting_pairs,
                maximal |-> [k \in DOMAIN best |-> moves[best[k]]]]

\* recursive_minimax_strategy(game) up to its draw from `maximal`:
\* resulting_pairs (the values, in the order of the moves), maximal, whether
\* it raises, and game.current_state as the call leaves it.
recursive_minimax_strategy(game) ==
    recursive_choice(game.current_state,
                     get_possible_moves(game.current_state),
                     expand_next(game, expand_each(game, new_states(game.current_state))))

\* Tree always left with its default mov.
Tree_unnamed(value, mov) ==
    [value |-> value, children |-> <<>>, highest_score |-> <<>>, mov |-> "Root"]

Tree(value, mov) ==
    [value |-> value, children |-> <<>>, highest_score |-> <<>>, mov |-> mov]

\* The state of iterative_minimax_strategy on entering its loop; `nodes` holds
\* the Tree objects made so far, the stack and the children fields hold indices
\* into it.  A highest_score of None is <<>>, a score k is <<k>>.
iterative_start(game) ==
    [game |-> game, cur |-> game.current_state, stack |-> <<1>>,
     nodes |-> <<Tree(game.current_state, "Root")>>,
     returned |-> FALSE, raised |-> None, maximal |-> <<>>]

\* find_maximal comparing the scores without the change of sign.
find_maximal_same_sign(nodes, x) ==
    IF \E i \in DOMAIN nodes[x].children :
           nodes[nodes[x].children[i]].highest_score = <<>>
    THEN [raised |-> "TypeError", maximal |-> <<>>]
    ELSE LET best == SelectSeq(nodes[x].children,
                               LAMBDA z : nodes[z].highest_score
                                              = nodes[x].highest_score)
         IN [raised |-> None,
             maximal |-> [k \in DOMAIN best |-> nodes[best[k]].mov]]

\* find_maximal(x): the list returned, or the TypeError that
\* z.highest_score * (-1) raises for a child whose highest_score is None.
find_maximal(nodes, x) ==
    IF \E i \in DOMAIN nodes[x].children :
           nodes[nodes[x].children[i]].highest_score = <<>>
    THEN [raised |-> "TypeError", maximal |-> <<>>]
    ELSE LET best == SelectSeq(nodes[x].children,
                               LAMBDA z : <<nodes[z].highest_score[1] * (-1)>>
                                              = nodes[x].highest_score)
         IN [raised |-> None,
             maximal |-> [k \in DOMAIN best |-> nodes[best[k]].mov]]

\* The stack with the new nodes under the node they are the children of.
restacked_children_first(popped, x, added) == (popped \o added) \o <<x>>

\* The node pushed back twice over.
restacked_twice(popped, x, added) == Append(Append(popped, x), x) \o added

\* s.add(x), then s.add(n) for each new node n.
restacked(popped, x, added) == Append(popped, x) \o added

\* One iteration of the loop: pop x and treat it.
iterative_step(st) ==
    LET x == st.stack[Len(st.stack)]
        popped == SubSeq(st.stack, 1, Len(st.stack) - 1)
        node == st.nodes[x]
    IN IF node.children # <<>>
       THEN IF \E i \in DOMAIN node.children :
                   st.nodes[node.children[i]].highest_score = <<>>
            THEN [st EXCEPT !.stack = popped, !.raised = "TypeError"]
            ELSE LET score == MaxOf([i \in DOMAIN node.children |->
                                  (-1) * st.nodes[node.children[i]].highest_score[1]])
                     scored == [st.nodes EXCEPT ![x].highest_score = <<score>>]
                     found == find_maximal(scored, x)
                 IN IF node.mov # "Root"
                    THEN [st EXCEPT !.stack = popped, !.nodes = scored]
                    ELSE IF found.raised # None
                    THEN [st EXCEPT !.stack = popped, !.nodes = scored,
                                    !.raised = found.raised]
                    ELSE [st EXCEPT !.stack = popped, !.nodes = scored,
                                    !.maximal = found.maximal,
                                    !.game = [@ EXCEPT !.current_state = st.cur],
                                    !.returned = TRUE]
       ELSE IF is_over(st.game, node.value)
       THEN LET cur_player == IF node.value.p1_turn THEN "p1" ELSE "p2"
                other_player == IF cur_player = "p1" THEN "p2" ELSE "p1"
                game == [st.game EXCEPT !.current_state = node.value]
                score == IF is_winner(game, cur_player) THEN 1
                         ELSE IF is_winner(game, other_player) THEN -1
                         ELSE 0
            IN [st EXCEPT !.stack = popped, !.game = game,
                          !.nodes = [@ EXCEPT ![x].highest_score = <<score>>]]
       ELSE LET moves == get_possible_moves(node.value)
                new == [i \in DOMAIN moves |->
                           Tree(make_move(node.value, moves[i]), moves[i])]
                added == [i \in DOMAIN new |-> Len(st.nodes) + i]
            IN [st EXCEPT !.stack = restacked(popped, x, added),
                          !.nodes = [@ EXCEPT ![x].children = @ \o added] \o new]

\* The loop has been left: by a return, by an exception or on an empty stack.
LoopLeft(st) == st.returned \/ st.raised # None \/ st.stack = <<>>

\* Up to 2^n iterations of the loop from st, a quarter of them at a time
\* (a half for n = 1); each part is carried out before the next is begun.
RECURSIVE iterate(_, _)
iterate(st, n) ==
    IF n = 0 THEN IF LoopLeft(st) THEN st ELSE iterative_step(st)
    ELSE IF n = 1
    THEN LET half == iterate(st, 0)
         IN IF LoopLeft(half) THEN half ELSE iterate(half, 0)
    ELSE LET first == iterate(st, n - 2)
             second == iterate(first, n - 2)
             third == iterate(second, n - 2)
         IN IF LoopLeft(first) THEN first
            ELSE IF LoopLeft(second) THEN second
            ELSE IF LoopLeft(third) THEN third
            ELSE iterate(third, n - 2)

\* What iterative_minimax_strategy has computed once its loop is left in st:
\* the values of the root's moves, maximal (empty when the loop ends on an
\* empty stack and 0 is returned), whether it raises, and the game as the call
\* leaves it.
iterative_choice(st) ==
    LET root == st.nodes[1]
        scores == [i \in DOMAIN root.children |->
                      st.nodes[root.children[i]].highest_score]
    IN [raised |-> IF ~ LoopLeft(st) THEN "unfinished"
                   ELSE IF st.returned /\ st.maximal = <<>> THEN "ValueError"
                   ELSE st.raised,
        game |-> IF st.returned \/ st.raised # None THEN st.game
                 ELSE [st.game EXCEPT !.current_state = st.cur],
        moves |-> [i \in DOMAIN root.children |-> st.nodes[root.children[i]].mov],
        resulting_pairs |-> IF st.returned
                            THEN [i \in DOMAIN scores |-> (-1) * scores[i][1]]
                            ELSE <<>>,
        maximal |-> st.maximal]

\* iterative_minimax_strategy(game) up to its draw from `maximal`.
iterative_minimax_strategy(game) ==
    iterative_choice(iterate(iterative_start(game), LoopDoublings))

\* ------------------------------------------------------------------- a game

\* The board of the state object s.
BoardOf(s) == boards[s.board]

\* The state object s with its board read from the heap.
Deref(s) == [s EXCEPT !.board = boards[s.board]]

\* game.current_state with its board.
CurrentState == Deref(states[current_state])

NoCall == [op |-> "none"]

\* StonehengeGame(p1_starts) with the board size read from the input.
Init ==
    \E p1_starts \in BOOLEAN, board_size \in Sizes :
        /\ boards = <<FreshBoard[board_size]>>
        /\ states = <<[p1_turn |-> p1_starts, size |-> board_size, board |-> 1]>>
        /\ current_state = 1
        /\ call = NoCall

\* game.current_state = game.current_state.make_move(move) for a legal move;
\* the state left behind is no longer referenced.
Moved(move, new_state) ==
    /\ boards' = <<new_state.board>>
    /\ states' = <<[new_state EXCEPT !.board = 1]>>
    /\ current_state' = 1
    /\ call' = [op |-> "make_move", self |-> current_state,
                move |-> move, result |-> 1]

Play ==
    \E move \in Range(get_possible_moves(CurrentState)) :
        Moved(move, make_move(CurrentState, move))

\* What a strategy returns once it has computed r: a draw from maximal
\* (randint(0, len(maximal) - 1) yields each index), or 0, or the exception.
Returns(strategy, r) ==
    /\ IF r.game.current_state = CurrentState
       THEN UNCHANGED <<boards, states, current_state>>
       ELSE /\ boards' = <<r.game.current_state.board>>
            /\ states' = <<[r.game.current_state EXCEPT !.board = 1]>>
            /\ current_state' = 1
    /\ IF r.raised # None
       THEN call' = [op |-> strategy, raised |-> r.raised, moves |-> r.moves,
                     resulting_pairs |-> r.resulting_pairs,
                     maximal |-> r.maximal, is_move |-> FALSE, returned |-> "-"]
       ELSE IF r.maximal # <<>>
       THEN \E k \in DOMAIN r.maximal :
               call' = [op |-> strategy, raised |-> None, moves |-> r.moves,
                        resulting_pairs |-> r.resulting_pairs,
                        maximal |-> r.maximal, is_move |-> TRUE,
                        returned |-> r.maximal[k]]
       ELSE call' = [op |-> strategy, raised |-> None, moves |-> r.moves,
                     resulting_pairs |-> r.resulting_pairs,
                     maximal |-> r.maximal, is_move |-> FALSE, returned |-> "0"]

\* A strategy is asked for a move once in each state of the game.
Asked == call.op \in {"recursive_minimax_strategy", "iterative_minimax_strategy"}

Recursive == /\ ~ Asked
             /\ Returns("recursive_minimax_strategy",
                        recursive_minimax_strategy(Game(CurrentState)))

Iterative == /\ ~ Asked
             /\ Returns("iterative_minimax_strategy",
                        iterative_minimax_strategy(Game(CurrentState)))

\* A game played by legal moves.
Next == Play

Spec == Init /\ [][Next]_vars

\* A game played by legal moves in which the strategies are asked for moves.
NextSearch == Play \/ Recursive \/ Iterative

SpecSearch == Init /\ [][NextSearch]_vars

\* ------------------------------------------------- occupy_node called freely

\* board.occupy_node(node, player) on the board of the game, for any node of
\* the registry and either player: claimed nodes and finished games included.
Occupy ==
    \E i \in DOMAIN BoardOf(states[current_state]).node_reference, player \in Players :
        LET b == states[current_state].board
            node == boards[b].node_reference[i]
        IN /\ Len(boards[b].moves_history) < MaxOccupy
           /\ boards' = [boards EXCEPT ![b] = occupy_node(@, node, player)]
           /\ call' = [op |-> "occupy_node", self |-> current_state,
                       node |-> node, player |-> player]
           /\ UNCHANGED <<states, current_state>>

NextOccupy == Occupy

SpecOccupy == Init /\ [][NextOccupy]_vars

\* ------------------------------------------------------ states kept together

HeapMoves == SeqSum([i \in DOMAIN boards |-> Len(boards[i].moves_history)])

\* produce_copy handing out the board it was called on.
produce_copy_shared(bs, self) == self

\* The Board object produce_copy returns, as an index into the heap bs: a
\* new object, made by Board(self.data[0]).
produce_copy_ref(bs, self) == Len(bs) + 1


\* new = states[src].make_move(move) for a legal move, the state src kept.
Made(src, move, new_state, ref) ==
    /\ HeapMoves + Len(new_state.board.moves_history) <= MaxHeapMoves
    /\ boards' = IF ref > Len(boards)
                 THEN Append(boards, new_state.board)
                 ELSE [boards EXCEPT ![ref] = new_state.board]
    /\ states' = Append(states, [new_state EXCEPT !.board = ref])
    /\ call' = [op |-> "make_move", self |-> src, move |-> move,
                result |-> Len(states) + 1]
    /\ UNCHANGED current_state

MakeMove ==
    \E src \in DOMAIN states :
        \E move \in Range(get_possible_moves(Deref(states[src]))) :
            /\ Len(states) < MaxStates
            /\ Made(src, move, make_move(Deref(states[src]), move),
                    produce_copy_ref(boards, states[src].board))

\* states[s].board.occupy_node(node, player), for any state kept.
OccupyOn ==
    \E s \in DOMAIN states :
        \E i \in DOMAIN BoardOf(states[s]).node_reference, player \in Players :
            LET b == states[s].board
                node == boards[b].node_reference[i]
            IN /\ HeapMoves < MaxHeapMoves
               /\ boards' = [boards EXCEPT ![b] = occupy_node(@, node, player)]
               /\ call' = [op |-> "occupy_node", self |-> s,
                           node |-> node, player |-> player]
               /\ UNCHANGED <<states, current_state>>

NextHeap == MakeMove \/ OccupyOn

SpecHeap == Init /\ [][NextHeap]_vars

\* ---------------------------------------------- boards constructed and marked

\* A label no board of the sizes constructed has in its registry.
Unregistered == "?"

\* adjoin returns None: the size is neither 0 nor at least 1, so that none of
\* its three branches assigns res1.
adjoin_is_None(size) == ~ (size = 0) /\ ~ (size >= 1)

\* Board(size) as a call: the exception it raises if any, the board it
\* returns otherwise, and the layers generated and named by then.
\* generate_leys(None) raises TypeError on `for x in l`.
Board_call(size) ==
    IF adjoin_is_None(size)
    THEN [raised |-> "TypeError", layers |-> Content(size)]
    ELSE [raised |-> None, layers |-> Content(size), board |-> Board(size)]

\* occupy_node(node, player) for any label: on a label that is no key of
\* node_reference the history has the move appended when KeyError is raised.
occupy_node_call(b, node, player) ==
    IF node \in Range(b.node_reference)
    THEN [raised |-> None, board |-> occupy_node(b, node, player)]
    ELSE [raised |-> "KeyError",
          board |-> [b EXCEPT !.moves_history = Append(@, <<node, player>>)]]

InitBoard ==
    /\ boards = <<>>
    /\ states = <<>>
    /\ current_state = 0
    /\ call = NoCall

Constructed(size, r) ==
    /\ boards' = IF r.raised = None THEN <<r.board>> ELSE <<>>
    /\ call' = [op |-> "Board", size |-> size, raised |-> r.raised,
                layers |-> r.layers]
    /\ UNCHANGED <<states, current_state>>

\* b = Board(size)
Construct ==
    \E size \in (0 - NegativeSizes) .. MaxBoardSize :
        /\ call = NoCall
        /\ Constructed(size, Board_call(size))

Marked(node, player, r) ==
    /\ boards' = <<r.board>>
    /\ call' = [op |-> "occupy_node", node |-> node, player |-> player,
                raised |-> r.raised]
    /\ UNCHANGED <<states, current_state>>

\* b.occupy_node(node, player), for a label of the registry or not.
OccupyCall ==
    /\ boards # <<>>
    /\ Len(boards[1].moves_history) < MaxBoardOccupy
    /\ \E node \in Range(boards[1].node_reference) \cup {Unregistered},
          player \in Players :
          Marked(node, player, occupy_node_call(boards[1], node, player))

NextBoard == Construct \/ OccupyCall

SpecBoard == InitBoard /\ [][NextBoard]_vars

\* ------------------------------- iterative_minimax_strategy, step by step

\* The number of cells of b nobody has claimed.
FreeCells(b) == Cardinality({n \in DOMAIN b.value : b.value[n] = 0})

\* A call of iterative_minimax_strategy(game) is inside its loop.
InLoop == call.op = "iterative_loop" /\ ~ LoopLeft(call.st)

\* game.current_state = state
Repointed(state) ==
    /\ boards' = <<state.board>>
    /\ states' = <<[state EXCEPT !.board = 1]>>
    /\ current_state' = 1

\* The call enters its loop with the root on the stack; no node has been
\* popped yet.
Entered(st) ==
    /\ call' = [op |-> "iterative_loop", st |-> st, x |-> 0,
                pops |-> <<0>>, bare |-> <<0>>, expanded |-> <<0>>]
    /\ UNCHANGED <<boards, states, current_state>>

EnterLoop ==
    /\ ~ InLoop
    /\ FreeCells(BoardOf(states[current_state])) <= MaxLoopCells
    /\ Entered(iterative_start(Game(CurrentState)))

\* counts with one more for node x if it is counted, and a count of 0 for
\* each node made since.
Counted(counts, x, counted, n) ==
    [i \in 1 .. n |-> IF i > Len(counts) THEN 0
                      ELSE IF i = x /\ counted THEN counts[i] + 1
                      ELSE counts[i]]

\* One iteration of the loop has popped x from the stack of st and left the
\* call in `after`: how often each node has been popped, how often with no
\* children yet, and how often it has been given children; and
\* game.current_state as the iteration, or the return after the loop, leaves
\* it.
Stepped(st, x, after) ==
    /\ call' = [op |-> "iterative_loop", st |-> after, x |-> x,
                pops |-> Counted(call.pops, x, TRUE, Len(after.nodes)),
                bare |-> Counted(call.bare, x, st.nodes[x].children = <<>>,
                                 Len(after.nodes)),
                expanded |-> Counted(call.expanded, x,
                                     /\ st.nodes[x].children = <<>>
                                     /\ ~ is_over(st.game, st.nodes[x].value),
                                     Len(after.nodes))]
    /\ Repointed(IF LoopLeft(after) THEN iterative_choice(after).game.current_state
                 ELSE after.game.current_state)

LoopStep ==
    /\ InLoop
    /\ Stepped(call.st, call.st.stack[Len(call.st.stack)],
               iterative_step(call.st))

\* A move of the game, made while no strategy is running.
PlayOutside == ~ InLoop /\ Play

NextLoop == PlayOutside \/ EnterLoop \/ LoopStep

SpecLoop == Init /\ [][NextLoop]_vars


\* ------------------------------------------------- a ley-line by itself

\* The values of the nodes of a line: 0 for one that nobody has claimed.
Marks == {0, 1, 2}

\* LeyLine(cells) over one node or more, with any values.
InitLine ==
    /\ boards = <<>>
    /\ states = <<>>
    /\ current_state = 0
    /\ \E n \in 1 .. MaxLineCells :
          \E value \in [Range(SubSeq(alphabet, 1, n)) -> Marks] :
              call = [op |-> "LeyLine", value |-> value,
                      line |-> LeyLine(SubSeq(alphabet, 1, n))]

\* line.calculate_positions()
Calculate ==
    /\ call' = [call EXCEPT !.op = "calculate_positions",
                            !.line = calculate_positions(@, call.value)]
    /\ UNCHANGED <<boards, states, current_state>>

\* What occupy_node does to a line: the value of one of its cells is set to 1
\* or to 2 and the line is recalculated, in the one call.
OccupyCell ==
    /\ \E i \in DOMAIN call.line.cells, mark \in {1, 2} :
          LET value == [call.value EXCEPT ![call.line.cells[i]] = mark]
          IN call' = [call EXCEPT !.op = "occupy_node",
                                  !.value = value,
                                  !.line = calculate_positions(@, value)]
    /\ UNCHANGED <<boards, states, current_state>>

NextLine == Calculate \/ OccupyCell

SpecLine == InitLine /\ [][NextLine]_vars


\* ------------------------------------------------- properties of legal play

\* The board of the game.
TheBoard == BoardOf(states[current_state])

\* The ley-lines of b, the three families together.
Lines(b) == b.upw_leys \o b.downw_leys \o b.horiz_leys

AllClaimed(b) ==
    \A i \in DOMAIN b.node_reference : b.value[b.node_reference[i]] # 0

\* C4: under legal moves no more moves are made than the board has cells, and
\* a board with every cell claimed, or with no legal move left, has a winner:
\* no draw is reached.
C4_NoDraw ==
    /\ Len(TheBoard.moves_history) <= Len(TheBoard.node_reference)
    /\ AllClaimed(TheBoard) => TheBoard.data[2] # None
    /\ get_possible_moves(CurrentState) = <<>> => TheBoard.data[2] # None

\* The game of size 2 decided by its seventh and last move.
C4_Witness ==
    /\ TheBoard.data[1] = 2
    /\ Len(TheBoard.moves_history) = 7
    /\ AllClaimed(TheBoard)
    /\ TheBoard.data[2] # None

\* The number of cells of a line of n cells a player needs: n / 2 rounded up.
Need(n) == (n + 1) \div 2

\* The cells of the line that player has marked in the first k moves.
MarkedBy(cells, history, k, player) ==
    Cardinality({i \in DOMAIN cells :
                    \E j \in 1 .. k : history[j] = <<cells[i], player>>})

\* Whether some player has Need cells of the line after the first k moves.
Reached(cells, history, k) ==
    \E player \in Players :
        MarkedBy(cells, history, k, player) >= Need(Len(cells))

\* The first player to have Need cells of the line, None if there is none.
FirstToHalf(cells, history) ==
    IF Reached(cells, history, Len(history))
    THEN LET k == CHOOSE k \in 1 .. Len(history) :
                      /\ Reached(cells, history, k)
                      /\ ~ Reached(cells, history, k - 1)
         IN CHOOSE player \in Players :
                MarkedBy(cells, history, k, player) >= Need(Len(cells))
    ELSE None

\* C8: under legal moves every ley-line of n cells is owned by the first
\* player to have marked at least n / 2 of its cells (2 of 3, 1 of 2, 1 of 1)
\* and is unowned while neither player has.
C8_FirstToHalfOwns ==
    \A i \in DOMAIN Lines(TheBoard) :
        Lines(TheBoard)[i].taken
            = FirstToHalf(Lines(TheBoard)[i].cells, TheBoard.moves_history)

\* A line of three cells owned by the player with two of its cells, the other
\* player holding the third, next to a line of three cells still unowned with
\* one cell marked.
C8_Witness ==
    /\ \E i \in DOMAIN Lines(TheBoard), player \in Players :
          LET line == Lines(TheBoard)[i]
          IN /\ Len(line.cells) = 3
             /\ line.taken = player
             /\ MarkedBy(line.cells, TheBoard.moves_history,
                         Len(TheBoard.moves_history), player) = 2
             /\ \A c \in DOMAIN line.cells : TheBoard.value[line.cells[c]] # 0
    /\ \E i \in DOMAIN Lines(TheBoard) :
          LET line == Lines(TheBoard)[i]
          IN /\ Len(line.cells) = 3
             /\ line.taken = None
             /\ \E c \in DOMAIN line.cells : TheBoard.value[line.cells[c]] # 0

\* C10: the board of the state make_move returns has the history of the state
\* it was called on followed by one entry, the move with the player whose
\* turn it was, and the returned state's turn is the other player's.
C10_MakeMoveAppends ==
    [][call'.op = "make_move" =>
          LET s == states[call'.self]
              new == states'[call'.result]
          IN /\ boards'[new.board].moves_history
                   = Append(boards[s.board].moves_history,
                            <<call'.move, IF s.p1_turn THEN "p1" ELSE "p2">>)
             /\ new.p1_turn = ~ s.p1_turn]_vars

\* make_move has returned on a state that had moves in its history.
C10_Witness ==
    /\ call.op = "make_move"
    /\ Len(BoardOf(states[call.result]).moves_history) >= 3
    /\ BoardOf(states[call.result]).moves_history[3][1] = call.move

\* ---------------------------------------------- properties of occupy_node

\* The number of ley-lines of b owned by player, the three families together.
OwnedLines(b, player) ==
    Cardinality({i \in DOMAIN Lines(b) : Lines(b)[i].taken = player})

\* The count the win check compares with: twice the upward lines and the
\* layers.
CheckedTotal(b) == 2 * Len(b.upw_leys) + Len(b.content)

\* C5: after any occupy_node calls the winner flag is set exactly when some
\* player owns at least half of the ley-line count the win check uses.
C5_WinnerIffHalf ==
    (TheBoard.data[2] # None)
        <=> \E player \in Players :
                2 * OwnedLines(TheBoard, player) >= CheckedTotal(TheBoard)

\* A board of size 2 won while both players own ley-lines.
C5_Witness ==
    /\ call.op = "occupy_node"
    /\ TheBoard.data[1] = 2
    /\ TheBoard.data[2] # None
    /\ \A player \in Players : OwnedLines(TheBoard, player) >= 1

\* C6: once the winner flag names a player no occupy_node call changes it,
\* whichever node and player the call is made with.
C6_WinnerSetOnce ==
    [][TheBoard.data[2] # None => TheBoard'.data[2] = TheBoard.data[2]]_vars

\* After the game is won the other player occupies until it, too, owns half
\* of the ley-lines; the flag still names the first.
C6_Witness ==
    /\ call.op = "occupy_node"
    /\ TheBoard.data[2] # None
    /\ call.player # TheBoard.data[2]
    /\ winner(TheBoard, call.player)

\* C7: a ley-line owned by a player keeps that owner through every
\* occupy_node call.
C7_OwnerKept ==
    [][\A i \in DOMAIN Lines(TheBoard) :
          Lines(TheBoard)[i].taken # None
              => Lines(TheBoard')[i].taken = Lines(TheBoard)[i].taken]_vars

\* A line owned by one player in which the other player now has half of the
\* cells, a claimed cell having been occupied again.
C7_Witness ==
    /\ call.op = "occupy_node"
    /\ \E j, k \in DOMAIN TheBoard.moves_history :
          j < k /\ TheBoard.moves_history[j][1] = TheBoard.moves_history[k][1]
    /\ \E i \in DOMAIN Lines(TheBoard), player \in Players :
          LET line == Lines(TheBoard)[i]
          IN /\ line.taken # None
             /\ line.taken # player
             /\ 2 * Cardinality({c \in DOMAIN line.cells :
                        TheBoard.value[line.cells[c]]
                            = IF player = "p1" THEN 1 ELSE 2})
                    >= Len(line.cells)

\* ------------------------------------------------- properties of make_move

\* The state object s of the heap with everything reached from it.
Whole(sts, bs, s) == [sts[s] EXCEPT !.board = bs[sts[s].board]]

\* C9: make_move changes no state there was before it, the state it is called
\* on included, and occupy_node on the board of one state changes no other
\* state: states share no board.
C9_OriginalKept ==
    [][/\ call'.op = "make_move" =>
              \A s \in DOMAIN states :
                  Whole(states', boards', s) = Whole(states, boards, s)
       /\ call'.op = "occupy_node" =>
              \A s \in DOMAIN states :
                  s # call'.self =>
                      Whole(states', boards', s) = Whole(states, boards, s)]_vars

\* Two states made from the first by make_move, and occupy_node called on the
\* board of one of them.
C9_Witness ==
    /\ Len(states) = 3
    /\ call.op = "occupy_node"
    /\ call.self = 2
    /\ BoardOf(states[1]).moves_history = <<>>
    /\ Len(BoardOf(states[2]).moves_history) = 2
    /\ Len(BoardOf(states[3]).moves_history) = 1

\* ------------------------------------------------ properties of the search

\* The negamax value of the board b with p1_turn telling whose move it is: at
\* a board with no legal move +1 if the player to move is the winner, -1 if
\* the other player is, 0 otherwise; elsewhere the greatest negated value of
\* the boards the legal moves lead to.
RECURSIVE Worth(_, _)
Worth(b, p1_turn) ==
    LET mover == IF p1_turn THEN "p1" ELSE "p2"
        other == IF p1_turn THEN "p2" ELSE "p1"
        moves == possible_variations(b)
    IN IF moves = <<>>
       THEN IF b.data[2] = mover THEN 1
            ELSE IF b.data[2] = other THEN -1
            ELSE 0
       ELSE MaxOf([i \in DOMAIN moves |->
                      (-1) * Worth(occupy_node(b, moves[i], mover), ~ p1_turn)])

\* The negated negamax value of each legal move of the state s, in the order
\* of the moves.
MoveValues(s) ==
    LET moves == possible_variations(s.board)
        mover == IF s.p1_turn THEN "p1" ELSE "p2"
    IN [i \in DOMAIN moves |->
           (-1) * Worth(occupy_node(s.board, moves[i], mover), ~ s.p1_turn)]

\* The moves of the greatest value, values[i] being the value of moves[i].
BestMoves(moves, values) ==
    {moves[i] : i \in {j \in DOMAIN moves : values[j] = MaxOf(values)}}

\* C1: called on a state with legal moves, recursive_minimax_strategy gives
\* each move its negated negamax value and returns a move drawn from exactly
\* the moves of the greatest value.  The negamax values are computed for the
\* comparison once for each call, in the state where the first of the drawn
\* moves is returned.
C1_RecursiveReturnsBest ==
    (call.op = "recursive_minimax_strategy"
        /\ get_possible_moves(CurrentState) # <<>>)
    => /\ call.raised = None
       /\ call.is_move
       /\ call.returned \in Range(call.maximal)
       /\ call.returned = call.maximal[1] =>
              LET values == MoveValues(CurrentState)
              IN /\ call.moves = get_possible_moves(CurrentState)
                 /\ call.resulting_pairs = values
                 /\ Range(call.maximal) = BestMoves(call.moves, values)

\* The recursive strategy has returned the second of several best moves in a
\* state of size 2 that also has worse moves.
C1_Witness ==
    /\ call.op = "recursive_minimax_strategy"
    /\ TheBoard.data[1] = 2
    /\ Len(call.maximal) >= 2
    /\ Len(call.maximal) < Len(call.moves)
    /\ call.returned = call.maximal[2]

\* C2: called on a state with legal moves, iterative_minimax_strategy gives
\* every move the value recursive_minimax_strategy gives it and draws from the
\* same moves.  The recursive strategy is run for the comparison once for each
\* call, in the state where the first of the drawn moves is returned.
C2_IterativeAsRecursive ==
    (call.op = "iterative_minimax_strategy"
        /\ get_possible_moves(CurrentState) # <<>>)
    => /\ call.raised = None
       /\ call.is_move
       /\ call.returned \in Range(call.maximal)
       /\ call.returned = call.maximal[1] =>
              LET r == recursive_minimax_strategy(Game(CurrentState))
              IN /\ r.raised = None
                 /\ call.moves = r.moves
                 /\ call.resulting_pairs = r.resulting_pairs
                 /\ Range(call.maximal) = Range(r.maximal)

\* The iterative strategy has returned in a state of size 2 with a winning
\* move and a losing one.
C2_Witness ==
    /\ call.op = "iterative_minimax_strategy"
    /\ TheBoard.data[1] = 2
    /\ \E i, j \in DOMAIN call.resulting_pairs :
          call.resulting_pairs[i] = 1 /\ call.resulting_pairs[j] = -1
    /\ call.returned = call.maximal[1]

\* C3: a strategy called on a state with no legal move returns 0 and raises
\* nothing.
C3_ZeroWithoutMoves ==
    (Asked /\ get_possible_moves(CurrentState) = <<>>)
    => /\ call.raised = None
       /\ call.returned = "0"

\* ------------------------------------------- properties of the legal moves

\* The labels of the rows one after the other, each row from left to right.
RECURSIVE RowByRow(_)
RowByRow(rows) ==
    IF rows = <<>> THEN <<>> ELSE rows[1] \o RowByRow(Tail(rows))

\* The labels of the cells of b nobody has claimed, row by row.
Unclaimed(b) == SelectSeq(RowByRow(b.content), LAMBDA n : b.value[n] = 0)

\* C11: the legal moves are the labels of the unclaimed cells row by row and
\* from left to right while the board has no winner, and none once it has
\* one, whatever cells are left.
C11_LegalMoves ==
    /\ possible_variations(TheBoard)
          = IF TheBoard.data[2] = None THEN Unclaimed(TheBoard) ELSE <<>>
    /\ get_possible_moves(CurrentState) = possible_variations(TheBoard)

\* A won board of size 2 with three or more cells left unclaimed.
C11_Witness ==
    /\ call.op = "occupy_node"
    /\ TheBoard.data[1] = 2
    /\ TheBoard.data[2] # None
    /\ Len(Unclaimed(TheBoard)) >= 3

\* C12: called on a state with legal moves, either strategy returns a move,
\* and the move is one of get_possible_moves() of that state.
C12_ReturnsLegalMove ==
    (Asked /\ get_possible_moves(CurrentState) # <<>>)
    => /\ call.raised = None
       /\ call.is_move
       /\ call.returned \in Range(get_possible_moves(CurrentState))

\* A strategy has returned C on the new game of size 1 with player 1 to move.
C12_Witness ==
    /\ Asked
    /\ states[current_state].size = 1
    /\ states[current_state].p1_turn
    /\ TheBoard.moves_history = <<>>
    /\ call.is_move
    /\ call.returned = "C"

\* C13: when a strategy returns its move game.current_state is the state it
\* was before the call, whatever states the search has put there meanwhile.
C13_CurrentStateRestored ==
    [][(call'.op \in {"recursive_minimax_strategy", "iterative_minimax_strategy"}
           /\ call'.is_move)
       => /\ current_state' = current_state
          /\ CurrentState' = CurrentState]_vars

\* A strategy has returned a move in a state whose first move leads to a
\* state that expander, called on it, has left in game.current_state.
C13_Witness ==
    /\ Asked
    /\ call.is_move
    /\ TheBoard.data[1] = 2
    /\ LET first == make_move(CurrentState, call.moves[1])
       IN /\ get_possible_moves(first) # <<>>
          /\ expander(Game(CurrentState), first).game.current_state
                # CurrentState

\* ------------------------------------------ properties of the constructed board

\* Board(size) has returned a board and nothing has been done to it since.
Fresh(size) == call.op = "Board" /\ call.size = size /\ boards # <<>>

\* C14, as the code has it: a new board of size 0 has exactly the 2 cells A
\* and B, and its legal moves are exactly [A, B].
C14_SizeZeroTwoCells ==
    Fresh(0) => /\ boards[1].node_reference = <<"A", "B">>
                /\ DOMAIN boards[1].value = {"A", "B"}
                /\ possible_variations(boards[1]) = <<"A", "B">>

\* C14, as stated: a new board of size 0 has exactly the 3 cells A, B and C,
\* and its legal moves are exactly [A, B, C].
C14_SizeZeroThreeCells ==
    Fresh(0) => /\ boards[1].node_reference = <<"A", "B", "C">>
                /\ DOMAIN boards[1].value = {"A", "B", "C"}
                /\ possible_variations(boards[1]) = <<"A", "B", "C">>

\* Board(0) has returned.
C14_Witness == Fresh(0) /\ boards[1].moves_history = <<>>

\* The number of cells of the boards of sizes 0 to 5.
CellCounts == <<2, 3, 7, 12, 18, 25>>

FirstLetters == <<"A", "B", "C", "D", "E", "F", "G", "H", "I", "J", "K", "L",
                  "M", "N", "O", "P", "Q", "R", "S", "T", "U", "V", "W", "X",
                  "Y">>

\* C15: the boards of sizes 0 to 5 have 2, 3, 7, 12, 18 and 25 cells, for a
\* size n >= 1 in n + 1 rows of 2, 3, ..., n + 1 and n cells; the labels are
\* pairwise distinct and the legal moves of the new board are the first
\* letters of the alphabet in order.
C15_CellCounts ==
    \A n \in 0 .. 5 :
        Fresh(n) =>
            LET b == boards[1]
                count == CellCounts[n + 1]
            IN /\ Len(b.node_reference) = count
               /\ Cardinality(Range(b.node_reference)) = count
               /\ Cardinality(DOMAIN b.value) = count
               /\ n >= 1 => /\ Len(b.content) = n + 1
                            /\ \A i \in 1 .. n : Len(b.content[i]) = i + 1
                            /\ Len(b.content[n + 1]) = n
               /\ n = 0 => b.content = <<<<"A", "B">>>>
               /\ possible_variations(b) = SubSeq(FirstLetters, 1, count)

\* Board(5) has returned its 25 cells, the last of them Y.
C15_Witness ==
    /\ Fresh(5)
    /\ Len(boards[1].node_reference) = 25
    /\ boards[1].node_reference[25] = "Y"

\* C16, as the code has it: a board of size >= 1 has size + 1 upward
\* ley-lines and size + 1 downward ley-lines.
C16_AsManyDownward ==
    (boards # <<>> /\ boards[1].data[1] >= 1)
    => /\ Len(boards[1].upw_leys) = boards[1].data[1] + 1
       /\ Len(boards[1].downw_leys) = boards[1].data[1] + 1

\* C16, as stated: a board of size >= 1 has size + 1 upward ley-lines and
\* size downward ley-lines.
C16_OneDownwardLess ==
    (boards # <<>> /\ boards[1].data[1] >= 1)
    => /\ Len(boards[1].upw_leys) = boards[1].data[1] + 1
       /\ Len(boards[1].downw_leys) = boards[1].data[1]

\* Board(3) has returned with four downward ley-lines.
C16_Witness ==
    /\ Fresh(3)
    /\ Len(boards[1].downw_leys) = 4
    /\ Len(boards[1].upw_leys) = 4

\* The cells of the ley-lines, line by line.
CellsOf(leys) == [i \in DOMAIN leys |-> leys[i].cells]

\* C17, as the code has it: a board of size 0 has two upward ley-lines and
\* two downward ley-lines, one of each for each cell of its single layer, and
\* one horizontal line with the whole layer.
C17_SizeZeroLines ==
    (boards # <<>> /\ boards[1].data[1] = 0)
    => /\ CellsOf(boards[1].upw_leys) = << <<"A">>, <<"B">> >>
       /\ CellsOf(boards[1].downw_leys) = << <<"A">>, <<"B">> >>
       /\ CellsOf(boards[1].horiz_leys) = << <<"A", "B">> >>

\* C17, as stated: a board of size 0 has one upward ley-line with every cell
\* of its single layer and no downward ley-line.
C17_SizeZeroOneLine ==
    (boards # <<>> /\ boards[1].data[1] = 0)
    => /\ Len(boards[1].upw_leys) = 1
       /\ boards[1].upw_leys[1].cells = boards[1].content[1]
       /\ boards[1].downw_leys = <<>>

\* Board(0) has returned with lines for its one layer.
C17_Witness ==
    /\ Fresh(0)
    /\ Len(boards[1].content) = 1
    /\ Len(boards[1].upw_leys) + Len(boards[1].downw_leys) = 4

\* C18: the count the win check compares with is twice the number of upward
\* ley-lines plus the number of horizontal ley-lines.
C18_TotalLeys ==
    boards # <<>>
    => total_leys(boards[1])
          = 2 * Len(boards[1].upw_leys) + Len(boards[1].horiz_leys)

\* The win check has run on a board of size 4: 2 * 5 + 5 lines.
C18_Witness ==
    /\ call.op = "occupy_node"
    /\ call.raised = None
    /\ boards[1].data[1] = 4
    /\ total_leys(boards[1]) = 15

\* C19: an occupy_node call that raises leaves the board as it was, the move
\* history included.
C19_OccupyAtomic ==
    [][(call'.op = "occupy_node" /\ call'.raised # None)
       => boards' = boards]_vars

\* C20: Board(size) for a negative size raises, returns no board and has
\* built nothing by then.
C20_NegativeSizeRejectedFirst ==
    (call.op = "Board" /\ call.size < 0)
    => /\ call.raised # None
       /\ boards = <<>>
       /\ call.layers = <<>>

\* ------------------------------------------ properties of the claimed cells

\* The nodes occupy_node has been called for on b.
Occupied(b) == {b.moves_history[i][1] : i \in DOMAIN b.moves_history}

\* C21: a cell occupy_node has been called for is not free again, after that
\* call or after any later ones: occupation_possible is false for it and it
\* is not among the legal moves.
C21_OccupiedStays ==
    \A node \in Occupied(TheBoard) :
        /\ ~ occupation_possible(TheBoard, node)
        /\ node \notin Range(possible_variations(TheBoard))
        /\ node \notin Range(get_possible_moves(CurrentState))

\* Two cells have been occupied, the second by p2, and the game goes on with
\* legal moves left.
C21_Witness ==
    /\ Len(TheBoard.moves_history) >= 2
    /\ TheBoard.moves_history[1][1] # TheBoard.moves_history[2][1]
    /\ TheBoard.moves_history[2][2] = "p2"
    /\ possible_variations(TheBoard) # <<>>

\* ------------------------------------- properties of the iterative search

\* The nodes of the call's tree, by their indices.
LoopNodes == call.st.nodes

\* The node the next iteration pops.
Top == call.st.stack[Len(call.st.stack)]

\* C22: whenever the loop is about to pop a node that has children, each of
\* its children has its score set, so the maximum of the negated scores is
\* taken over children that all have one and the call does not raise on a
\* score of None.
C22_ChildrenScored ==
    call.op = "iterative_loop"
    => /\ call.st.raised = None
       /\ InLoop =>
            \A i \in DOMAIN LoopNodes[Top].children :
                LoopNodes[LoopNodes[Top].children[i]].highest_score # <<>>

\* A node other than the root, with two or more children, has been popped
\* and scored from them.
C22_Witness ==
    /\ call.op = "iterative_loop"
    /\ call.x > 1
    /\ Len(LoopNodes[call.x].children) >= 2
    /\ call.pops[call.x] = 2
    /\ LoopNodes[call.x].highest_score # <<>>

\* The loop has been left as the code leaves it: by the return that follows
\* the scoring of the root, or on an empty stack.
LoopEnded ==
    /\ call.op = "iterative_loop"
    /\ call.st.raised = None
    /\ \/ call.st.returned /\ LoopNodes[1].highest_score # <<>>
       \/ call.st.stack = <<>>

\* The most iterations the loop can spend on a node not popped yet whose
\* state has `free` unclaimed cells: one to give it its children, those
\* of its children, of which it has at most `free`, and one to score it.
RECURSIVE Most(_)
Most(free) == IF free = 0 THEN 1 ELSE 2 + free * Most(free - 1)

\* The most iterations the loop has left for the nodes on its stack: one for
\* a node that has its children, Most for any other.
RECURSIVE Left(_, _)
Left(nodes, stack) ==
    IF stack = <<>> THEN 0
    ELSE Left(nodes, Tail(stack))
            + (IF nodes[Head(stack)].children # <<>> THEN 1
               ELSE Most(FreeCells(nodes[Head(stack)].value.board)))

\* C23: the loop of the iterative search, entered on a state reached by
\* legal moves, terminates: each iteration leaves fewer iterations to make,
\* and the loop is left by the return on the root's score or on an empty
\* stack.  No node is popped more than twice, popped without children more
\* than once or given children more than once; and when the loop is left
\* each node has been popped without children exactly once, those whose game
\* goes on having been given their children then, those whose game is over
\* their score.
C23_LoopTerminates ==
    [][call'.op = "iterative_loop" =>
         /\ InLoop => Left(call'.st.nodes, call'.st.stack)
                         < Left(call.st.nodes, call.st.stack)
         /\ LoopLeft(call'.st) => LoopEnded'
         /\ \A i \in DOMAIN call'.st.nodes :
               /\ call'.pops[i] <= 2
               /\ call'.bare[i] <= 1
               /\ call'.expanded[i] <= 1
               /\ LoopLeft(call'.st) =>
                     /\ call'.bare[i] = 1
                     /\ call'.expanded[i]
                           = IF is_over(call'.st.game, call'.st.nodes[i].value)
                             THEN 0 ELSE 1
                     /\ call'.pops[i] = 1 + call'.expanded[i]]_vars

\* The loop has been left by the return at the root of a tree of ten nodes
\* or more, one of them popped a second time just before.
C23_Witness ==
    /\ LoopEnded
    /\ call.st.returned
    /\ Len(LoopNodes) >= 10
    /\ \E i \in DOMAIN LoopNodes : i > 1 /\ call.pops[i] = 2

\* ------------------------------------------- properties of a ley-line

\* The number of cells of the line with the given mark.
CountOf(line, value, mark) ==
    Cardinality({i \in DOMAIN line.cells : value[line.cells[i]] = mark})

\* C24: calculate_positions on an unowned line of which p1 has half of the
\* cells or more leaves the line owned by p1, whatever p2 has of it.
C24_FirstPlayerFirst ==
    [][(/\ call'.op = "calculate_positions"
        /\ call.line.taken = None
        /\ 2 * CountOf(call.line, call.value, 1) >= Len(call.line.cells))
       => call'.line.taken = "p1"]_vars

\* ---------------------------------------------- properties of produce_copy

\* The owners of the ley-lines, line by line.
TakenOf(leys) == [i \in DOMAIN leys |-> leys[i].taken]

\* The board `copy` has the size of b, its cell marks, its ley-line owners
\* in the three families, its winner and its move history.
SameBoard(b, copy) ==
    /\ copy.data[1] = b.data[1]
    /\ copy.value = b.value
    /\ TakenOf(copy.upw_leys) = TakenOf(b.upw_leys)
    /\ TakenOf(copy.downw_leys) = TakenOf(b.downw_leys)
    /\ TakenOf(copy.horiz_leys) = TakenOf(b.horiz_leys)
    /\ copy.data[2] = b.data[2]
    /\ copy.moves_history = b.moves_history

\* C25: produce_copy of a board reached by occupy_node calls is a board of
\* the same size with the same cell marks, ley-line owners, winner and move
\* history.
C25_CopyEqual == SameBoard(TheBoard, produce_copy(TheBoard))

\* A board with a winner after four occupy_node calls of both players, one
\* of them on a cell claimed before, and its copy.
C25_Witness ==
    /\ call.op = "occupy_node"
    /\ Len(TheBoard.moves_history) = 4
    /\ TheBoard.data[2] # None
    /\ \E i, j \in DOMAIN TheBoard.moves_history :
          /\ i < j
          /\ TheBoard.moves_history[i][1] = TheBoard.moves_history[j][1]
          /\ TheBoard.moves_history[i][2] # TheBoard.moves_history[j][2]
    /\ produce_copy(TheBoard).moves_history = TheBoard.moves_history

\* ----------------------------------------- properties of the ley-line count

\* C26: a board of size 0 to 3 has as many downward ley-lines as upward
\* ones, so the total the win check uses, with the upward lines counted
\* twice, is the number of ley-lines of the board, and a player has won by
\* the check exactly when they own half of the ley-lines of the board.
C26_DoubleCountExact ==
    (boards # <<>> /\ boards[1].data[1] \in 0 .. 3)
    => /\ Len(boards[1].downw_leys) = Len(boards[1].upw_leys)
       /\ total_leys(boards[1])
             = Len(boards[1].upw_leys) + Len(boards[1].downw_leys)
                  + Len(boards[1].horiz_leys)
       /\ \A player \in Players :
             winner(boards[1], player)
                <=> 2 * OwnedLines(boards[1], player) >= Len(Lines(boards[1]))

\* The win check has run on a board of size 3, of 4 + 4 + 4 ley-lines, and
\* a player owns some of them.
C26_Witness ==
    /\ call.op = "occupy_node"
    /\ call.raised = None
    /\ boards[1].data[1] = 3
    /\ Len(Lines(boards[1])) = 12
    /\ OwnedLines(boards[1], call.player) >= 2

\* ------------------------------------------ properties of the states won

\* The player whose turn it is in state s.
ToMove(s) == IF s.p1_turn THEN "p1" ELSE "p2"

\* C27: in a state reached by make_move whose board has a winner, the winner
\* is the player of the last move and not the player whose turn it is, and
\* the recursive and the iterative search both give the state the score -1.
C27_WinnerMovedLast ==
    game_over(TheBoard)
    => /\ TheBoard.moves_history # <<>>
       /\ TheBoard.data[2]
             = TheBoard.moves_history[Len(TheBoard.moves_history)][2]
       /\ TheBoard.data[2] # ToMove(CurrentState)
       /\ expander(Game(CurrentState), CurrentState).result = -1
       /\ iterative_step(iterative_start(Game(CurrentState))).nodes[1].highest_score
             = <<-1>>

\* p2 has won a game on the board of size 2 with the fourth move or a later
\* one, and it is the turn of p1.
C27_Witness ==
    /\ call.op = "make_move"
    /\ TheBoard.data = <<2, "p2">>
    /\ Len(TheBoard.moves_history) >= 4
    /\ CurrentState.p1_turn

\* ------------------------------------- properties of the smallest boards

\* C28: on the boards of sizes 0 and 1 each legal first move leaves its
\* player with half of the ley-lines or more and as the winner, so a game
\* has ended after its first move and has no second one; and at the initial
\* state each search finds every legal move to be a best one.
C28_FirstMoveWins ==
    TheBoard.data[1] \in {0, 1}
    => /\ Len(TheBoard.moves_history) <= 1
       /\ game_over(TheBoard) <=> Len(TheBoard.moves_history) = 1
       /\ Len(TheBoard.moves_history) = 1
             => /\ TheBoard.data[2] = TheBoard.moves_history[1][2]
                /\ 2 * OwnedLines(TheBoard, TheBoard.moves_history[1][2])
                      >= Len(Lines(TheBoard))
                /\ 2 * OwnedLines(TheBoard, TheBoard.moves_history[1][2])
                      >= total_leys(TheBoard)
       /\ (Asked /\ TheBoard.moves_history = <<>>)
             => /\ call.raised = None
                /\ call.maximal = get_possible_moves(CurrentState)
                /\ Len(call.maximal) = TheBoard.data[1] + 2

\* The iterative search has returned C, one of three best moves, at the
\* initial state of size 1.
C28_Witness ==
    /\ call.op = "iterative_minimax_strategy"
    /\ TheBoard.data[1] = 1
    /\ TheBoard.moves_history = <<>>
    /\ call.maximal = <<"A", "B", "C">>
    /\ call.returned = "C"

\* -------------------------------------- properties of the ley-line families

\* The places of the cell `node` in the lines of one family.
PlacesOf(leys, node) ==
    UNION {{<<i, k>> : k \in {k \in DOMAIN leys[i].cells :
                                 leys[i].cells[k] = node}} :
           i \in DOMAIN leys}

\* Each cell of b is on exactly one line of the family, at one place, and
\* no line of the family is without cells.
Partitions(leys, b) ==
    /\ \A node \in Range(b.node_reference) :
          Cardinality(PlacesOf(leys, node)) = 1
    /\ \A i \in DOMAIN leys :
          /\ leys[i].cells # <<>>
          /\ Range(leys[i].cells) \subseteq Range(b.node_reference)

\* C29: on a board of size 0 to 3 each cell is on exactly one upward, one
\* downward and one horizontal ley-line, and no ley-line is empty.
C29_FamiliesPartition ==
    (boards # <<>> /\ boards[1].data[1] \in 0 .. 3)
    => /\ Partitions(boards[1].upw_leys, boards[1])
       /\ Partitions(boards[1].downw_leys, boards[1])
       /\ Partitions(boards[1].horiz_leys, boards[1])

\* Board(3) has returned its 12 cells on 4 lines of each family.
C29_Witness ==
    /\ Fresh(3)
    /\ Len(boards[1].node_reference) = 12
    /\ Len(boards[1].upw_leys) = 4
    /\ Len(boards[1].downw_leys) = 4
    /\ Len(boards[1].horiz_leys) = 4

\* ----------------------------------------- properties of the lines left

\* Both players have half of the cells of the line or more.
BothAtHalf(line, value) ==
    /\ 2 * CountOf(line, value, 1) >= Len(line.cells)
    /\ 2 * CountOf(line, value, 2) >= Len(line.cells)

\* C30: after an occupy_node call each ley-line still without an owner has
\* less than half of its cells marked by p1 and less than half marked by
\* p2; and the evaluations the call made found no line without an owner on
\* which both players had half of the cells or more.
C30_UnownedBelowHalf ==
    [][call'.op = "occupy_node" =>
         \A i \in DOMAIN Lines(TheBoard) :
            /\ Lines(TheBoard')[i].taken = None
                  => /\ 2 * CountOf(Lines(TheBoard')[i], TheBoard'.value, 1)
                           < Len(Lines(TheBoard')[i].cells)
                     /\ 2 * CountOf(Lines(TheBoard')[i], TheBoard'.value, 2)
                           < Len(Lines(TheBoard')[i].cells)
            /\ Lines(TheBoard)[i].taken = None
                  => ~ BothAtHalf(Lines(TheBoard)[i], TheBoard'.value)]_vars

\* After three occupy_node calls a line of three cells or more has no
\* owner, with a cell marked by each player.
C30_Witness ==
    /\ call.op = "occupy_node"
    /\ Len(TheBoard.moves_history) >= 3
    /\ \E i \in DOMAIN Lines(TheBoard) :
          /\ Lines(TheBoard)[i].taken = None
          /\ Len(Lines(TheBoard)[i].cells) >= 3
          /\ CountOf(Lines(TheBoard)[i], TheBoard.value, 1) = 1
          /\ CountOf(Lines(TheBoard)[i], TheBoard.value, 2) = 1

====
